---- MODULE Spec2Model ----
(***************************************************************************)
(* Model of the login handler of the yaku CLI                              *)
(* (qg-api-service/yaku-cli/src/handlers/login.ts).                        *)
(*                                                                         *)
(* One invocation of login() is modelled: the five steps of the            *)
(* orchestrator, with loginAndCreateEnv and selectNamespaceAndUpdateEnv    *)
(* split at their awaits.  Collaborators that live outside login.ts        *)
(* (prompts, OAuth flow, REST client, environment store, URL helpers)      *)
(* answer nondeterministically: each call returns a value or fails with    *)
(* an Error instance or with a value that is not an Error.                 *)
(***************************************************************************)
EXTENDS Integers, Sequences, FiniteSets, TLC

\* ---------------------------------------------------------------- bounds
\* namespace ids known to the model are 0..MaxNsId
MaxNsId == 2

\* ------------------------------------------------------------ the steps
\* the five try-blocks of login(), in program order
StepEnv == 1
StepUrl == 2
StepMethod == 3
StepExec == 4
StepNs == 5

Steps == StepEnv..StepNs

\* -------------------------------------------------------------- values
Names == {"dev", "prod"}

\* JavaScript values of options.token: undefined, true, or a string
TokUndefined == "<undefined>"
TokTrue == "<true>"
TokenStrings == {"abc123", "badtoken"}
TokenOptions == {TokUndefined, TokTrue, ""} \cup TokenStrings

\* options.token && ...  (login.ts:163,165)
TokenTruthy(t) == t # TokUndefined /\ t # ""

\* typeof options.token === 'string'
TokenIsString(t) == t # TokUndefined /\ t # TokTrue

\* options.namespace: undefined or a number
NsUndefined == -1
NsIds == 0..MaxNsId
NsOptions == {NsUndefined} \cup NsIds

\* !options.namespace is false (login.ts:244)
NsTruthy(n) == n # NsUndefined /\ n # 0

\* options.namespace.toString() (login.ts:252): decimal digits of the number
Digit(d) == <<"0", "1", "2", "3", "4", "5", "6", "7", "8", "9">>[d + 1]

RECURSIVE NumToString(_)
NumToString(n) ==
  IF n < 10 THEN Digit(n) ELSE NumToString(n \div 10) \o Digit(n % 10)

\* URLs: one malformed text, one web-UI URL, the API URL that belongs to it
UrlMalformed == "yaku example"
UrlWeb == "https://yaku.example"
UrlApi == "https://yaku.example/api/v1"
UrlTexts == {UrlMalformed, UrlWeb, UrlApi}

\* values a failing collaborator rejects or throws with
ErrUnderlying == [isError |-> TRUE, message |-> "underlying failure"]
NonErrorValue == [isError |-> FALSE, message |-> ""]
Failures == {ErrUnderlying, NonErrorValue}

\* new Error(message)
NewError(m) == [isError |-> TRUE, message |-> m]

\* environment records; a token-login record carries name, url and token,
\* an OAuth record additionally carries the identity of the session
OldEnv(n) == [name |-> n, url |-> UrlApi, token |-> "oldtoken",
              namespace |-> "1", user |-> ""]

\* the value of an unassigned `let env: Environment`
UndefinedEnv == [name |-> "<undefined>", url |-> "", token |-> "",
                 namespace |-> "", user |-> ""]

\* ------------------------------------------------------------ the store
\* loadEnvironments(): the stored records, at most one per name
createEnvironment(st, e) == {x \in st : x.name # e.name} \cup {e}

deleteEnvironment(st, n) == {x \in st : x.name # n}

updateEnvironmentByKey(st, n, v) ==
  {IF x.name = n THEN [x EXCEPT !.namespace = v] ELSE x : x \in st}

HasEnv(st, n) == \E x \in st : x.name = n

EnvOf(st, n) == CHOOSE x \in st : x.name = n

\* ------------------------------------------------------ other collaborators
\* validateUrl(url) throws on a malformed url and returns url otherwise
UrlIsValid(u) == u \in {UrlWeb, UrlApi}

\* urlToApiUrl(url): the API endpoint of the service the url points at
urlToApiUrl(u) == IF u = UrlWeb THEN UrlApi ELSE u

\* loginToken(token, envName, url): the minimal record of a token login
loginToken(t, n, u) ==
  [name |-> n, url |-> u, token |-> t, namespace |-> "", user |-> ""]

\* loginOAuth(envName, url, scopes): the records the flow can return
OAuthUsers == {"alice", "bob"}

loginOAuthResults(n, u) ==
  {[name |-> n, url |-> u, token |-> "jwt", namespace |-> "", user |-> w] :
     w \in OAuthUsers}

\* ------------------------------------------------------------ the call log
\* a call that returned: step, collaborator, outcome
NoFailure == [isError |-> FALSE, message |-> "<none>"]

L(s, o, k) == [step |-> s, op |-> o, ok |-> k, err |-> NoFailure]

\* a call (or a throw statement of login.ts itself) that failed with f
LF(s, o, f) ==
  [step |-> s, op |-> o, ok |-> FALSE,
   err |-> [isError |-> f.isError, message |-> f.message]]

\* result of a step function
NotRun == [status |-> "none", isError |-> FALSE, message |-> ""]
Returned == [status |-> "returned", isError |-> FALSE, message |-> ""]
Threw(e) == [status |-> "threw", isError |-> e.isError, message |-> e.message]


\* --------------------------------------------------- login.ts: the messages
\* the `else` branches of the five catch blocks of login()
UnknownLine(s) ==
  CASE s = StepEnv ->
         "An unknown error occurred while getting the environment name."
    [] s = StepUrl ->
         "An unknown error occurred while getting the environment URL."
    [] s = StepMethod ->
         "An unknown error occurred while getting the login method."
    [] s = StepExec -> "An unknown error occurred while logging in."
    [] OTHER -> "An unknown error occurred while selecting the namespace."

\* what a catch block of login() prints for the result of a failed step
CatchLine(s, r) == IF r.isError THEN r.message ELSE UnknownLine(s)

SavedLine(n) == "Login information have been saved to environment '" \o n \o "'."
ActivatedLine(n) == "Environment '" \o n \o "' is now activated."

MsgNoEnvs == "No environments available for selection, please create one first!"
MsgDuplicate(n) == "Environment with name '" \o n \o "' already exists!"
MsgInvalidUrl == "Invalid URL"
MsgOAuth == "OAuth login failed! Please try again."
MsgOAuthAdmin == "OAuth admin login failed! Please try again."
MsgToken == "Token login failed! Please try again."
MsgNsMissing == "Namespace does not exist!"
MsgNsFetch == "Failed to get namespaces!"
MsgTypeError == "Cannot read properties of undefined (reading 'name')"

\* `${msg}\nError was: ${err.message}`
Wrap(m, e) == NewError(m \o "\nError was: " \o e.message)

\* a variant of getEnvironment that returns the entered name unchecked
getEnvironmentUnchecked(name, st) ==
  IF name # ""
  THEN {[calls |-> <<>>, res |-> Returned, value |-> name]}
  ELSE
    {[calls |-> <<LF(StepEnv, "confirm:create", f)>>,
      res |-> Threw(f), value |-> name] : f \in Failures}
    \cup
    (IF st # {}
     THEN {[calls |-> <<L(StepEnv, "confirm:create", TRUE),
                        L(StepEnv, "selectEnvironment", TRUE)>>,
            res |-> Returned, value |-> x.name] : x \in st}
          \cup
          {[calls |-> <<L(StepEnv, "confirm:create", TRUE),
                        LF(StepEnv, "selectEnvironment", f)>>,
            res |-> Threw(f), value |-> name] : f \in Failures}
     ELSE {[calls |-> <<L(StepEnv, "confirm:create", TRUE),
                        LF(StepEnv, "throw", NewError(MsgNoEnvs))>>,
            res |-> Threw(NewError(MsgNoEnvs)), value |-> name]})
    \cup
    {[calls |-> <<L(StepEnv, "confirm:create", TRUE),
                  LF(StepEnv, "input:name", f)>>,
      res |-> Threw(f), value |-> name] : f \in Failures}
    \cup
    {[calls |-> <<L(StepEnv, "confirm:create", TRUE),
                  L(StepEnv, "input:name", TRUE)>>,
      res |-> Returned, value |-> n] : n \in Names}

\* ------------------------------------------------ login.ts: getEnvironment
\* every run of getEnvironment(name) over store st: the calls it makes, its
\* result, and the name it returns
getEnvironment(name, st) ==
  IF name # ""
  THEN {[calls |-> <<>>, res |-> Returned, value |-> name]}
  ELSE
    {[calls |-> <<LF(StepEnv, "confirm:create", f)>>,
      res |-> Threw(f), value |-> name] : f \in Failures}
    \cup
    \* shouldCreate = false
    (IF st # {}
     THEN {[calls |-> <<L(StepEnv, "confirm:create", TRUE),
                        L(StepEnv, "selectEnvironment", TRUE)>>,
            res |-> Returned, value |-> x.name] : x \in st}
          \cup
          {[calls |-> <<L(StepEnv, "confirm:create", TRUE),
                        LF(StepEnv, "selectEnvironment", f)>>,
            res |-> Threw(f), value |-> name] : f \in Failures}
     ELSE {[calls |-> <<L(StepEnv, "confirm:create", TRUE),
                        LF(StepEnv, "throw", NewError(MsgNoEnvs))>>,
            res |-> Threw(NewError(MsgNoEnvs)), value |-> name]})
    \cup
    \* shouldCreate = true
    {[calls |-> <<L(StepEnv, "confirm:create", TRUE),
                  LF(StepEnv, "input:name", f)>>,
      res |-> Threw(f), value |-> name] : f \in Failures}
    \cup
    {IF HasEnv(st, n)
     THEN [calls |-> <<L(StepEnv, "confirm:create", TRUE),
                       L(StepEnv, "input:name", TRUE),
                       LF(StepEnv, "throw", NewError(MsgDuplicate(n)))>>,
           res |-> Threw(NewError(MsgDuplicate(n))), value |-> name]
     ELSE [calls |-> <<L(StepEnv, "confirm:create", TRUE),
                       L(StepEnv, "input:name", TRUE)>>,
           res |-> Returned, value |-> n] : n \in Names}

\* -------------------------------------------- login.ts: getUrl and the url step
\* every run of getUrl(url, envName): the prompt is issued only for a falsy url
getUrl(url) ==
  IF url # ""
  THEN {[calls |-> <<>>, res |-> Returned, value |-> url]}
  ELSE {[calls |-> <<L(StepUrl, "input:url", TRUE)>>,
         res |-> Returned, value |-> u] : u \in UrlTexts}
       \cup
       {[calls |-> <<LF(StepUrl, "input:url", f)>>,
         res |-> Threw(f), value |-> url] : f \in Failures}

\* a variant of the url step that asks for confirmation for every valid url
urlStepAlwaysAsks(url0) ==
  UNION {
    IF g.res.status = "threw"
    THEN {[calls |-> g.calls, res |-> g.res, value |-> url0]}
    ELSE IF ~UrlIsValid(g.value)
    THEN {[calls |-> Append(g.calls, LF(StepUrl, "validateUrl",
                                        NewError(MsgInvalidUrl))),
           res |-> Threw(NewError(MsgInvalidUrl)), value |-> url0]}
    ELSE {[calls |-> Append(g.calls, L(StepUrl, "confirm:rewrite", TRUE)),
           res |-> Returned, value |-> urlToApiUrl(g.value)],
          [calls |-> Append(g.calls, L(StepUrl, "confirm:rewrite", TRUE)),
           res |-> Returned, value |-> g.value]}
         \cup
         {[calls |-> Append(g.calls, LF(StepUrl, "confirm:rewrite", f)),
           res |-> Threw(f), value |-> g.value] : f \in Failures}
    : g \in getUrl(url0)}

\* every run of the try block of the url step; value is options.url afterwards
urlStep(url0) ==
  UNION {
    IF g.res.status = "threw"
    THEN {[calls |-> g.calls, res |-> g.res, value |-> url0]}
    ELSE IF ~UrlIsValid(g.value)
    THEN {[calls |-> Append(g.calls, LF(StepUrl, "validateUrl",
                                    NewError(MsgInvalidUrl))),
           res |-> Threw(NewError(MsgInvalidUrl)), value |-> url0]}
    ELSE IF g.value = urlToApiUrl(g.value)
    THEN {[calls |-> g.calls, res |-> Returned, value |-> g.value]}
    ELSE {[calls |-> Append(g.calls, L(StepUrl, "confirm:rewrite", TRUE)),
           res |-> Returned, value |-> urlToApiUrl(g.value)],
          [calls |-> Append(g.calls, L(StepUrl, "confirm:rewrite", TRUE)),
           res |-> Returned, value |-> g.value]}
         \cup
         {[calls |-> Append(g.calls, LF(StepUrl, "confirm:rewrite", f)),
           res |-> Threw(f), value |-> g.value] : f \in Failures}
    : g \in getUrl(url0)}

\* ------------------------------------------------ login.ts: getLoginMethod
\* the choices handed to yp.select, as written at login.ts:170-179
MethodChoices ==
  {[name |-> "Login with web browser", value |-> "oauth"],
   [name |-> "token-prompt", value |-> "Login with an authentication token"]}

\* yp.select(prompt, choices) resolves to the value of the chosen entry
SelectRuns(s, o, choices) ==
  {[calls |-> <<L(s, o, TRUE)>>, res |-> Returned, value |-> c.value] :
     c \in choices}
  \cup
  {[calls |-> <<LF(s, o, f)>>, res |-> Threw(f), value |-> ""] :
     f \in Failures}

\* a variant that tests web before admin
getLoginMethodWebFirst(o) ==
  IF o.web
  THEN {[calls |-> <<>>, res |-> Returned, value |-> "oauth"]}
  ELSE IF o.admin
  THEN {[calls |-> <<>>, res |-> Returned, value |-> "oauth-admin"]}
  ELSE IF TokenTruthy(o.token) /\ TokenIsString(o.token)
  THEN {[calls |-> <<>>, res |-> Returned, value |-> "token"]}
  ELSE IF TokenTruthy(o.token) /\ ~TokenIsString(o.token)
  THEN {[calls |-> <<>>, res |-> Returned, value |-> "token-prompt"]}
  ELSE SelectRuns(StepMethod, "select:method", MethodChoices)

\* every run of getLoginMethod(options)
getLoginMethod(o) ==
  IF o.admin
  THEN {[calls |-> <<>>, res |-> Returned, value |-> "oauth-admin"]}
  ELSE IF o.web
  THEN {[calls |-> <<>>, res |-> Returned, value |-> "oauth"]}
  ELSE IF TokenTruthy(o.token) /\ TokenIsString(o.token)
  THEN {[calls |-> <<>>, res |-> Returned, value |-> "token"]}
  ELSE IF TokenTruthy(o.token) /\ ~TokenIsString(o.token)
  THEN {[calls |-> <<>>, res |-> Returned, value |-> "token-prompt"]}
  ELSE SelectRuns(StepMethod, "select:method", MethodChoices)

\* ------------------------------------------------------------------ state
VARIABLES
  pc,          \* where the invocation of login() stands
  envName,     \* parameter envName of login(), reassigned at login.ts:39
  options,     \* parameter options of login(); url is reassigned
  loginMethod, \* local loginMethod of login()
  token,       \* parameter token of loginAndCreateEnv, reassigned at :212
  env,         \* local env of loginAndCreateEnv
  namespaces,  \* local namespaces of selectNamespaceAndUpdateEnv (ids)
  store,       \* the stored environments
  store0,      \* the stored environments when login() was invoked
  calls,       \* the collaborator calls made so far, in order
  createArgs,  \* the arguments createEnvironment was called with, in order
  out,         \* the lines printed so far
  stepResult   \* how each step function ended

vars == <<pc, envName, options, loginMethod, token, env, namespaces, store,
          store0, calls, createArgs, out, stepResult>>

Init ==
  /\ pc = "getEnvironment"
  /\ envName \in {""} \cup Names
  /\ options \in [url : {""} \cup UrlTexts, namespace : NsOptions,
                  web : BOOLEAN, token : TokenOptions, admin : BOOLEAN]
  /\ loginMethod = ""
  /\ token = TokUndefined
  /\ env = UndefinedEnv
  /\ namespaces = {}
  /\ store \in {{OldEnv(n) : n \in S} : S \in SUBSET Names}
  /\ store0 = store
  /\ calls = <<>>
  /\ createArgs = <<>>
  /\ out = <<>>
  /\ stepResult = [s \in Steps |-> NotRun]

\* ------------------------------------------------- login(): steps 1 to 3
\* login.ts:37-49
StepGetEnvironment ==
  /\ pc = "getEnvironment"
  /\ \E r \in getEnvironment(envName, store) :
       /\ calls' = calls \o r.calls
       /\ stepResult' = [stepResult EXCEPT ![StepEnv] = r.res]
       /\ IF r.res.status = "threw"
          THEN /\ out' = Append(out, CatchLine(StepEnv, r.res))
               /\ pc' = "done"
               /\ envName' = envName
          ELSE /\ out' = out
               /\ pc' = "getUrl"
               /\ envName' = r.value
  /\ UNCHANGED <<options, loginMethod, token, env, namespaces, store, store0,
                 createArgs>>

\* login.ts:50-74
StepGetUrl ==
  /\ pc = "getUrl"
  /\ \E r \in urlStep(options.url) :
       /\ calls' = calls \o r.calls
       /\ stepResult' = [stepResult EXCEPT ![StepUrl] = r.res]
       /\ options' = [options EXCEPT !.url = r.value]
       /\ IF r.res.status = "threw"
          THEN /\ out' = Append(out, CatchLine(StepUrl, r.res))
               /\ pc' = "done"
          ELSE /\ out' = out
               /\ pc' = "getLoginMethod"
  /\ UNCHANGED <<envName, loginMethod, token, env, namespaces, store, store0,
                 createArgs>>

\* login.ts:75-88
StepGetLoginMethod ==
  /\ pc = "getLoginMethod"
  /\ \E r \in getLoginMethod(options) :
       /\ calls' = calls \o r.calls
       /\ stepResult' = [stepResult EXCEPT ![StepMethod] = r.res]
       /\ IF r.res.status = "threw"
          THEN /\ out' = Append(out, CatchLine(StepMethod, r.res))
               /\ pc' = "done"
               /\ loginMethod' = loginMethod
          ELSE /\ out' = out
               /\ pc' = "exec"
               /\ loginMethod' = r.value
  /\ UNCHANGED <<envName, options, token, env, namespaces, store, store0,
                 createArgs>>

\* ---------------------------------------- login(): step 4, loginAndCreateEnv
\* createEnvironment(e) over store st: it reads e.name, so an undefined
\* argument is a TypeError; a write may fail with an Error of the file
\* system and then leaves the store alone
CreateRuns(st, e) ==
  IF e = UndefinedEnv
  THEN {[store |-> st, res |-> Threw(NewError(MsgTypeError))]}
  ELSE {[store |-> createEnvironment(st, e), res |-> Returned]}
       \cup {[store |-> st, res |-> Threw(ErrUnderlying)]}

\* how loginAndCreateEnv ends, seen from login.ts:89-103: cs, st, ca are the
\* calls, store and createEnvironment arguments at that point
ExecEnd(cs, st, ca, res) ==
  /\ calls' = cs
  /\ store' = st
  /\ createArgs' = ca
  /\ stepResult' = [stepResult EXCEPT ![StepExec] = res]
  /\ IF res.status = "returned"
     THEN /\ out' = out \o <<SavedLine(envName), ActivatedLine(envName)>>
          /\ pc' = "nsConnect"
     ELSE /\ out' = Append(out, CatchLine(StepExec, res))
          /\ pc' = "done"

\* login.ts:228, reached by falling out of the if/else chain with env = e
FinalCreate(cs, st, ca, e) ==
  \E c \in CreateRuns(st, e) :
    ExecEnd(Append(cs, IF c.res.status = "returned"
                       THEN L(StepExec, "createEnvironment", TRUE)
                       ELSE LF(StepExec, "createEnvironment", c.res)),
            c.store, Append(ca, e), c.res)

\* a variant of the catch block whose delete is not keyed by envName
TokenCatchDeleteAll(cs, st, ca, e, f) ==
  LET cs1 == Append(cs, L(StepExec, "deleteEnvironment", TRUE))
      st1 == {}
  IN IF f.isError
     THEN ExecEnd(cs1, st1, ca, Threw(Wrap(MsgToken, f)))
     ELSE FinalCreate(cs1, st1, ca, e)

\* login.ts:220-226 for the caught value f, then login.ts:228
TokenCatch(cs, st, ca, e, f) ==
  LET cs1 == Append(cs, L(StepExec, "deleteEnvironment", TRUE))
      st1 == deleteEnvironment(st, envName)
  IN IF f.isError
     THEN ExecEnd(cs1, st1, ca, Threw(Wrap(MsgToken, f)))
     ELSE FinalCreate(cs1, st1, ca, e)

\* login.ts:185-192, 201, 210-213: entry and dispatch on the method
ExecStart ==
  /\ pc = "exec"
  /\ token' = options.token
  /\ env' = UndefinedEnv
  /\ pc' = IF loginMethod \in {"oauth", "oauth-admin"} THEN "oauth"
           ELSE IF loginMethod = "token-prompt" THEN "tokenPrompt"
           ELSE "loginToken"
  /\ UNCHANGED <<envName, options, loginMethod, namespaces, store, store0,
                 calls, createArgs, out, stepResult>>

\* a variant that asks for the token again when the prompt failed
TokenPromptAgain ==
  /\ pc = "tokenPrompt"
  /\ \/ \E t \in TokenStrings :
          /\ token' = t
          /\ pc' = "loginToken"
          /\ calls' = Append(calls, L(StepExec, "input:token", TRUE))
          /\ UNCHANGED <<store, createArgs, out, stepResult>>
     \/ \E f \in Failures :
          /\ token' = token
          /\ pc' = "tokenPrompt"
          /\ calls' = Append(calls, LF(StepExec, "input:token", f))
          /\ UNCHANGED <<store, createArgs, out, stepResult>>
  /\ UNCHANGED <<envName, options, loginMethod, env, namespaces, store0>>

\* login.ts:212: the prompt is outside the try block
TokenPrompt ==
  /\ pc = "tokenPrompt"
  /\ \/ \E t \in TokenStrings :
          /\ token' = t
          /\ pc' = "loginToken"
          /\ calls' = Append(calls, L(StepExec, "input:token", TRUE))
          /\ UNCHANGED <<store, createArgs, out, stepResult>>
     \/ \E f \in Failures :
          /\ token' = token
          /\ ExecEnd(Append(calls, LF(StepExec, "input:token", f)),
                     store, createArgs, Threw(f))
  /\ UNCHANGED <<envName, options, loginMethod, env, namespaces, store0>>

\* a variant that also writes the record inside the try block
OAuthReturnWriteInTry ==
  /\ pc = "oauth"
  /\ LET op == IF loginMethod = "oauth" THEN "loginOAuth"
               ELSE "loginOAuth:global"
         msg == IF loginMethod = "oauth" THEN MsgOAuth ELSE MsgOAuthAdmin
     IN \/ \E e \in loginOAuthResults(envName, options.url) :
             /\ env' = e
             /\ FinalCreate(calls \o <<L(StepExec, op, TRUE),
                                       L(StepExec, "createEnvironment", TRUE)>>,
                            createEnvironment(store, e),
                            Append(createArgs, e), e)
        \/ \E f \in Failures :
             /\ env' = env
             /\ IF f.isError
                THEN ExecEnd(Append(calls, LF(StepExec, op, f)), store,
                             createArgs, Threw(Wrap(msg, f)))
                ELSE FinalCreate(Append(calls, LF(StepExec, op, f)), store,
                                 createArgs, env)
  /\ UNCHANGED <<envName, options, loginMethod, token, namespaces, store0>>

\* login.ts:192-209 and 228: loginOAuth settles
OAuthReturn ==
  /\ pc = "oauth"
  /\ LET op == IF loginMethod = "oauth" THEN "loginOAuth"
               ELSE "loginOAuth:global"
         msg == IF loginMethod = "oauth" THEN MsgOAuth ELSE MsgOAuthAdmin
     IN \/ \E e \in loginOAuthResults(envName, options.url) :
             /\ env' = e
             /\ FinalCreate(Append(calls, L(StepExec, op, TRUE)), store,
                            createArgs, e)
        \/ \E f \in Failures :
             /\ env' = env
             /\ IF f.isError
                THEN ExecEnd(Append(calls, LF(StepExec, op, f)), store,
                             createArgs, Threw(Wrap(msg, f)))
                ELSE FinalCreate(Append(calls, LF(StepExec, op, f)), store,
                                 createArgs, env)
  /\ UNCHANGED <<envName, options, loginMethod, token, namespaces, store0>>

\* login.ts:215-217: loginToken settles, the record is written, connect starts
LoginTokenReturn ==
  /\ pc = "loginToken"
  /\ \/ LET e == loginToken(token, envName, options.url)
            cs == Append(calls, L(StepExec, "loginToken", TRUE))
        IN /\ env' = e
           /\ \E c \in CreateRuns(store, e) :
                IF c.res.status = "returned"
                THEN /\ calls' = Append(cs, L(StepExec, "createEnvironment",
                                              TRUE))
                     /\ store' = c.store
                     /\ createArgs' = Append(createArgs, e)
                     /\ pc' = "connect"
                     /\ UNCHANGED <<out, stepResult>>
                ELSE TokenCatch(Append(cs, LF(StepExec, "createEnvironment",
                                              c.res)),
                                store, Append(createArgs, e), e, c.res)
     \/ \E f \in Failures :
          /\ env' = env
          /\ TokenCatch(Append(calls, LF(StepExec, "loginToken", f)),
                        store, createArgs, env, f)
  /\ UNCHANGED <<envName, options, loginMethod, token, namespaces, store0>>

\* login.ts:217: connect settles
ConnectReturn ==
  /\ pc = "connect"
  /\ \/ /\ calls' = Append(calls, L(StepExec, "connect", TRUE))
        /\ pc' = "probe"
        /\ UNCHANGED <<store, createArgs, out, stepResult>>
     \/ \E f \in Failures :
          TokenCatch(Append(calls, LF(StepExec, "connect", f)), store,
                     createArgs, env, f)
  /\ UNCHANGED <<envName, options, loginMethod, token, env, namespaces,
                 store0>>

\* a variant that goes on to login.ts:228 after a successful probe
ProbeReturnNoReturn ==
  /\ pc = "probe"
  /\ \/ FinalCreate(Append(calls, L(StepExec, "listNewTokens", TRUE)), store,
                    createArgs, env)
     \/ \E f \in Failures :
          TokenCatch(Append(calls, LF(StepExec, "listNewTokens", f)),
                     store, createArgs, env, f)
  /\ UNCHANGED <<envName, options, loginMethod, token, env, namespaces,
                 store0>>

\* login.ts:218-226: the verification probe settles
ProbeReturn ==
  /\ pc = "probe"
  /\ \/ ExecEnd(Append(calls, L(StepExec, "listNewTokens", TRUE)), store,
                createArgs, Returned)
     \/ \E f \in Failures :
          TokenCatch(Append(calls, LF(StepExec, "listNewTokens", f)),
                     store, createArgs, env, f)
  /\ UNCHANGED <<envName, options, loginMethod, token, env, namespaces,
                 store0>>

\* ------------------------- login(): step 5, selectNamespaceAndUpdateEnv
\* handleRestApiError(err) reports the REST error and propagates it
handleRestApiError(f) == Threw(f)

\* selectNamespace(namespaces): the id the user picks, undefined for no entry
NsUndefinedText == "<undefined>"

selectNamespaceResults(list) ==
  IF list = {} THEN {NsUndefinedText} ELSE {NumToString(i) : i \in list}

\* how selectNamespaceAndUpdateEnv ends, seen from login.ts:104-116
NsEnd(cs, st, o, res) ==
  /\ calls' = cs
  /\ store' = st
  /\ stepResult' = [stepResult EXCEPT ![StepNs] = res]
  /\ out' = IF res.status = "threw" THEN Append(o, CatchLine(StepNs, res))
            ELSE o
  /\ pc' = "done"

\* login.ts:244-253 with the fetched ids list
NsAfterFetch(cs, o, list) ==
  IF ~NsTruthy(options.namespace)
  THEN /\ calls' = cs
       /\ out' = o
       /\ pc' = "nsSelect"
       /\ UNCHANGED <<store, stepResult>>
  ELSE IF options.namespace \notin list
  THEN NsEnd(Append(cs, LF(StepNs, "throw", NewError(MsgNsMissing))),
             store, o,
             Threw(NewError(MsgNsMissing)))
  ELSE NsEnd(Append(cs, L(StepNs, "updateEnvironmentByKey", TRUE)),
             updateEnvironmentByKey(store, envName,
                                    NumToString(options.namespace)),
             o, Returned)

\* login.ts:236: connect settles
NsConnect ==
  /\ pc = "nsConnect"
  /\ \/ /\ calls' = Append(calls, L(StepNs, "connect", TRUE))
        /\ pc' = "nsFetch"
        /\ UNCHANGED <<store, out, stepResult>>
     \/ \E f \in Failures :
          NsEnd(Append(calls, LF(StepNs, "connect", f)), store, out,
                Threw(f))
  /\ UNCHANGED <<envName, options, loginMethod, token, env, namespaces,
                 store0, createArgs>>

\* a variant whose catch block only prints
NsFetchSwallow ==
  /\ pc = "nsFetch"
  /\ \/ \E list \in SUBSET (1..MaxNsId) :
          /\ namespaces' = list
          /\ NsAfterFetch(Append(calls, L(StepNs, "getNamespaces", TRUE)),
                          out, list)
     \/ \E f \in Failures :
          /\ namespaces' = {}
          /\ NsAfterFetch(Append(calls, LF(StepNs, "getNamespaces", f)),
                          Append(out, MsgNsFetch), {})
  /\ UNCHANGED <<envName, options, loginMethod, token, env, store0,
                 createArgs>>

\* login.ts:238-253: getNamespaces settles
NsFetch ==
  /\ pc = "nsFetch"
  /\ \/ \E list \in SUBSET (1..MaxNsId) :
          /\ namespaces' = list
          /\ NsAfterFetch(Append(calls, L(StepNs, "getNamespaces", TRUE)),
                          out, list)
     \/ \E f \in Failures :
          /\ namespaces' = {}
          /\ LET cs == Append(calls, LF(StepNs, "getNamespaces", f))
                 o == Append(out, MsgNsFetch)
                 r == handleRestApiError(f)
             IN IF r.status = "threw"
                THEN NsEnd(cs, store, o, r)
                ELSE NsAfterFetch(cs, o, {})
  /\ UNCHANGED <<envName, options, loginMethod, token, env, store0,
                 createArgs>>

\* login.ts:245-246: selectNamespace settles
NsSelect ==
  /\ pc = "nsSelect"
  /\ \/ \E v \in selectNamespaceResults(namespaces) :
          NsEnd(calls \o <<L(StepNs, "selectNamespace", TRUE),
                           L(StepNs, "updateEnvironmentByKey", TRUE)>>,
                updateEnvironmentByKey(store, envName, v), out, Returned)
     \/ \E f \in Failures :
          NsEnd(Append(calls, LF(StepNs, "selectNamespace", f)), store,
                out, Threw(f))
  /\ UNCHANGED <<envName, options, loginMethod, token, env, namespaces,
                 store0, createArgs>>

\* ------------------------------------------------------- the specification
Next ==
  \/ StepGetEnvironment
  \/ StepGetUrl
  \/ StepGetLoginMethod
  \/ ExecStart
  \/ TokenPrompt
  \/ OAuthReturn
  \/ LoginTokenReturn
  \/ ConnectReturn
  \/ ProbeReturn
  \/ NsConnect
  \/ NsFetch
  \/ NsSelect

Spec == Init /\ [][Next]_vars

TypeOK ==
  /\ pc \in {"getEnvironment", "getUrl", "getLoginMethod", "exec",
             "tokenPrompt", "oauth", "loginToken", "connect", "probe",
             "nsConnect", "nsFetch", "nsSelect", "done"}
  /\ envName \in {""} \cup Names
  /\ namespaces \subseteq NsIds
  /\ \A x \in store : \A y \in store : x.name = y.name => x = y

\* ------------------------------------------------- reading the call log
CountOp(s, o) ==
  Cardinality({i \in DOMAIN calls : calls[i].step = s /\ calls[i].op = o})

Called(s, o, k) ==
  \E i \in DOMAIN calls :
    calls[i].step = s /\ calls[i].op = o /\ calls[i].ok = k

TokenMethods == {"token", "token-prompt"}
OAuthMethods == {"oauth", "oauth-admin"}
OAuthOps == {"loginOAuth", "loginOAuth:global"}

ExecEnded == stepResult[StepExec].status # "none"
ProbeOk == Called(StepExec, "listNewTokens", TRUE)
ProbeFailed == Called(StepExec, "listNewTokens", FALSE)
OAuthOk == \E o \in OAuthOps : Called(StepExec, o, TRUE)

\* ---------------------------------------------------------------- claims
\* C1: a token or token-prompt run of loginAndCreateEnv whose verification
\* probe failed, with whatever value, ends with no environment named envName
\* in the store.
C1_NoEnvAfterFailedProbe ==
  (loginMethod \in TokenMethods /\ ExecEnded /\ ProbeFailed)
    => ~HasEnv(store, envName)

\* C2: a token or token-prompt run whose probe succeeded leaves an
\* environment named envName with the supplied token and url, has called
\* createEnvironment exactly once, and neither writes nor deletes that
\* environment after the probe.
C2_ProbeOkCommits ==
  (loginMethod \in TokenMethods /\ ProbeOk) =>
    /\ stepResult[StepExec] = Returned
    /\ HasEnv(store, envName)
    /\ EnvOf(store, envName).token = token
    /\ EnvOf(store, envName).url = options.url
    /\ loginMethod = "token" => token = options.token
    /\ loginMethod = "token-prompt" =>
         token \in TokenStrings /\ Called(StepExec, "input:token", TRUE)
    /\ CountOp(StepExec, "createEnvironment") = 1
    /\ \A i \in DOMAIN calls : \A j \in DOMAIN calls :
         (calls[i].op = "listNewTokens" /\ i < j /\ calls[j].step = StepExec)
           => calls[j].op \notin {"createEnvironment", "deleteEnvironment"}

C2_Witness ==
  /\ loginMethod = "token-prompt"
  /\ ProbeOk
  /\ stepResult[StepExec] = Returned
  /\ HasEnv(store0, envName)
  /\ EnvOf(store, envName).token = "abc123"

\* C3: an oauth or oauth-admin run in which loginOAuth returned an
\* Environment calls createEnvironment exactly once, with exactly that
\* Environment, and never calls deleteEnvironment.
C3_OAuthSingleWrite ==
  (loginMethod \in OAuthMethods /\ OAuthOk) =>
    /\ env \in loginOAuthResults(envName, options.url)
    /\ createArgs = <<env>>
    /\ CountOp(StepExec, "createEnvironment") = 1
    /\ CountOp(StepExec, "deleteEnvironment") = 0

C3_Witness ==
  /\ loginMethod = "oauth-admin"
  /\ OAuthOk
  /\ stepResult[StepExec] = Returned
  /\ env \in store
  /\ env.user = "bob"

\* C4: an oauth or oauth-admin run in which loginOAuth failed, with whatever
\* value, surfaces an error with the fixed message of the method, calls
\* neither createEnvironment nor deleteEnvironment, and leaves the store as
\* it was.
C4_OAuthFailureSurfaced ==
  \A i \in DOMAIN calls :
    (calls[i].step = StepExec /\ calls[i].op \in OAuthOps /\ ~calls[i].ok) =>
      /\ stepResult[StepExec] =
           Threw(Wrap(IF loginMethod = "oauth" THEN MsgOAuth
                      ELSE MsgOAuthAdmin, calls[i].err))
      /\ CountOp(StepExec, "createEnvironment") = 0
      /\ CountOp(StepExec, "deleteEnvironment") = 0
      /\ store = store0

\* C5: once a call of some step has failed, no call of a later step is made.
C5_NoStepAfterFailure ==
  \A i \in DOMAIN calls : \A j \in DOMAIN calls :
    (i < j /\ ~calls[i].ok) => calls[j].step <= calls[i].step

\* C6: getLoginMethod takes the first match of admin, web, token as a
\* string, token as a bare flag, and issues no prompt in these four cases.
C6_FlagPrecedence ==
  stepResult[StepMethod].status # "none" =>
    /\ options.admin => loginMethod = "oauth-admin"
    /\ (~options.admin /\ options.web) => loginMethod = "oauth"
    /\ (~options.admin /\ ~options.web /\ options.token \in TokenStrings)
         => loginMethod = "token"
    /\ (~options.admin /\ ~options.web /\ options.token = TokTrue)
         => loginMethod = "token-prompt"
    /\ (options.admin \/ options.web \/ TokenTruthy(options.token))
         => /\ CountOp(StepMethod, "select:method") = 0
            /\ stepResult[StepMethod] = Returned

C6_Witness ==
  /\ pc = "exec"
  /\ options.admin /\ options.web /\ options.token \in TokenStrings
  /\ loginMethod = "oauth-admin"

\* C7: with none of admin, web and token set, getLoginMethod asks once and
\* returns 'oauth' or 'token-prompt', whichever entry the user picks.
C7_InteractiveChoiceInSet ==
  (/\ ~options.admin /\ ~options.web /\ ~TokenTruthy(options.token)
   /\ stepResult[StepMethod] = Returned) =>
    /\ loginMethod \in {"oauth", "token-prompt"}
    /\ CountOp(StepMethod, "select:method") = 1

\* C8: when the user picks token login in the selection list, the token is
\* prompted for before any createEnvironment call, and after a successful
\* probe the store holds the environment with the token entered there.
UserChoseTokenLogin ==
  Called(StepMethod, "select:method", TRUE) /\ loginMethod # "oauth"

C8_PromptedTokenStored ==
  UserChoseTokenLogin =>
    /\ \A j \in DOMAIN calls :
         calls[j].op = "createEnvironment" =>
           \E i \in DOMAIN calls :
             i < j /\ calls[i].op = "input:token" /\ calls[i].ok
    /\ ProbeOk =>
         /\ token \in TokenStrings
         /\ HasEnv(store, envName)
         /\ EnvOf(store, envName).token = token

\* C9: a namespace id given in options.namespace that is not in the fetched
\* list makes selectNamespaceAndUpdateEnv fail with the namespace-not-found
\* error, without a call of updateEnvironmentByKey and without a selection.
C9_UnknownNamespaceRejected ==
  (/\ Called(StepNs, "getNamespaces", TRUE)
   /\ options.namespace \in NsIds
   /\ options.namespace \notin namespaces) =>
    /\ stepResult[StepNs] = Threw(NewError(MsgNsMissing))
    /\ pc = "done"
    /\ CountOp(StepNs, "updateEnvironmentByKey") = 0
    /\ CountOp(StepNs, "selectNamespace") = 0

\* C10: a failure of client.getNamespaces is propagated out of
\* selectNamespaceAndUpdateEnv and ends the step: no selection, no
\* updateEnvironmentByKey, no second getNamespaces.
C10_FetchFailurePropagates ==
  \A i \in DOMAIN calls :
    (calls[i].step = StepNs /\ calls[i].op = "getNamespaces" /\ ~calls[i].ok)
      => /\ stepResult[StepNs] = Threw(calls[i].err)
         /\ pc = "done"
         /\ CountOp(StepNs, "selectNamespace") = 0
         /\ CountOp(StepNs, "updateEnvironmentByKey") = 0
         /\ CountOp(StepNs, "getNamespaces") = 1

C10_Witness ==
  /\ pc = "done"
  /\ Called(StepNs, "getNamespaces", FALSE)
  /\ stepResult[StepNs] = Threw(NonErrorValue)
  /\ options.namespace = NsUndefined

\* ------------------------------------------------------ reading the output
\* the printed lines that are not one of the two confirmation lines
ConfirmationLines == {SavedLine(n) : n \in Names} \cup {ActivatedLine(n) : n \in Names}

ErrorLines == {i \in DOMAIN out : out[i] \notin ConfirmationLines}

ConfirmationPrinted == \E i \in DOMAIN out : out[i] \in ConfirmationLines

\* C11: in a run in which a step fails, exactly one error line is printed
\* for the failure, by the catch block of login() for that step; this holds
\* for every step, the namespace step included.
C11_OneErrorLinePerFailure ==
  \A s \in Steps :
    stepResult[s].status = "threw" =>
      /\ Cardinality(ErrorLines) = 1
      /\ out[Len(out)] = CatchLine(s, stepResult[s])

\* C12: the two confirmation lines are printed only in successful runs:
\* never in a run where loginOAuth or the verification probe failed, and
\* never in a run that also prints an error line.
C12_ConfirmationOnlyOnSuccess ==
  ConfirmationPrinted =>
    /\ \A o \in OAuthOps : ~Called(StepExec, o, FALSE)
    /\ ~ProbeFailed
    /\ ErrorLines = {}

\* the calls that go to the network, and the calls that write the store
NetworkOps == OAuthOps \cup {"connect", "listNewTokens", "getNamespaces"}
StoreWriteOps == {"createEnvironment", "deleteEnvironment",
                  "updateEnvironmentByKey"}

\* C13: with no name given and a new environment asked for, a name that is
\* already stored makes getEnvironment fail with the duplicate-name error,
\* before any network call and before any store write of the login run.
C13_DuplicateRejectedEarly ==
  /\ (Called(StepEnv, "input:name", TRUE) /\ stepResult[StepEnv] = Returned)
       => ~HasEnv(store0, envName)
  /\ \A i \in DOMAIN calls :
       (calls[i].step = StepEnv /\ calls[i].op = "throw"
        /\ i > 1 /\ calls[i - 1].op = "input:name") =>
         /\ \E n \in Names :
              /\ HasEnv(store0, n)
              /\ stepResult[StepEnv] = Threw(NewError(MsgDuplicate(n)))
         /\ pc = "done"
         /\ store = store0
         /\ \A j \in DOMAIN calls :
              calls[j].op \notin NetworkOps \cup StoreWriteOps

C13_Witness ==
  /\ pc = "done"
  /\ Called(StepEnv, "input:name", TRUE)
  /\ HasEnv(store0, "dev")
  /\ stepResult[StepEnv] = Threw(NewError(MsgDuplicate("dev")))

\* C14: when the url step ends with options.url equal to the canonical API
\* form of a url, the url step run again with that url supplied asks for no
\* confirmation and leaves options.url as it is.
C14_CanonicalUrlNoPrompt ==
  (/\ stepResult[StepUrl] = Returned
   /\ \E u \in UrlTexts : UrlIsValid(u) /\ options.url = urlToApiUrl(u)) =>
    \A r \in urlStep(options.url) :
      /\ r.res = Returned
      /\ r.calls = <<>>
      /\ r.value = options.url

C14_Witness ==
  /\ stepResult[StepUrl] = Returned
  /\ Called(StepUrl, "confirm:rewrite", TRUE)
  /\ options.url = UrlApi
  /\ urlStep(options.url) # {}

\* C15: deleteEnvironment is called only after createEnvironment was called
\* for envName earlier in the run and the probe then failed; a failure before
\* the environment was written triggers no delete.
C15_DeleteOnlyAfterFailedProbe ==
  \A j \in DOMAIN calls :
    calls[j].op = "deleteEnvironment" =>
      \E i \in DOMAIN calls : \E k \in DOMAIN calls :
        /\ i < k /\ k < j
        /\ calls[i] = L(StepExec, "createEnvironment", TRUE)
        /\ calls[k].op = "listNewTokens" /\ ~calls[k].ok

\* C16: loginAndCreateEnv calls createEnvironment at most once; a run that
\* returns made exactly one createEnvironment call and no deleteEnvironment
\* call; a run that fails leaves no record it wrote in the store.
C16_OneCreateOrNothing ==
  /\ CountOp(StepExec, "createEnvironment") <= 1
  /\ stepResult[StepExec] = Returned =>
       /\ CountOp(StepExec, "createEnvironment") = 1
       /\ CountOp(StepExec, "deleteEnvironment") = 0
  /\ stepResult[StepExec].status = "threw" =>
       \A i \in DOMAIN createArgs : createArgs[i] \notin store

\* C17: updateEnvironmentByKey is called at most once, and only after a
\* createEnvironment call for envName completed earlier in the run with an
\* accepted credential (loginOAuth returned, or the probe succeeded).
C17_NamespaceAfterAcceptedCreate ==
  /\ CountOp(StepNs, "updateEnvironmentByKey") <= 1
  /\ \A j \in DOMAIN calls :
       calls[j].op = "updateEnvironmentByKey" =>
         /\ \E i \in DOMAIN calls :
              i < j /\ calls[i] = L(StepExec, "createEnvironment", TRUE)
         /\ OAuthOk \/ ProbeOk

\* C18: a run of login touches only the record named envName: every stored
\* environment with another name is the same before and after, on every
\* path.
C18_OtherRecordsUntouched ==
  \A x \in store0 \cup store :
    x.name # envName => (x \in store0 /\ x \in store)

C18_Witness ==
  /\ pc = "done"
  /\ envName = "dev"
  /\ HasEnv(store0, "dev")
  /\ ~HasEnv(store, "dev")
  /\ Called(StepExec, "deleteEnvironment", TRUE)
  /\ OldEnv("prod") \in store

\* checks of the model that the claims above lean on
ThrowLeavesNothingWritten ==
  stepResult[StepExec].status = "threw" =>
    \A i \in DOMAIN createArgs : createArgs[i] \notin store

UpdateAfterCreate ==
  /\ CountOp(StepNs, "updateEnvironmentByKey") <= 1
  /\ \A j \in DOMAIN calls :
       calls[j].op = "updateEnvironmentByKey" =>
         \E i \in DOMAIN calls :
           i < j /\ calls[i] = L(StepExec, "createEnvironment", TRUE)

\* how often a collaborator of the set ops was called in the whole run
CountAll(ops) == Cardinality({i \in DOMAIN calls : calls[i].op \in ops})

\* the interactive prompts named by the claim
PromptOps == {"confirm:create", "input:name", "input:url", "confirm:rewrite",
              "select:method", "input:token", "selectNamespace"}

\* C19: nothing is retried: loginOAuth, listNewTokens and getNamespaces are
\* each invoked at most once in a run of login, and each interactive prompt
\* is issued at most once, whether the call succeeds or fails.
C19_NothingRetried ==
  /\ CountAll(OAuthOps) <= 1
  /\ CountAll({"listNewTokens"}) <= 1
  /\ CountAll({"getNamespaces"}) <= 1
  /\ \A p \in PromptOps : CountAll({p}) <= 1

C19_Witness ==
  /\ pc = "done"
  /\ Called(StepEnv, "input:name", TRUE)
  /\ Called(StepUrl, "confirm:rewrite", TRUE)
  /\ Called(StepExec, "input:token", TRUE)
  /\ Called(StepExec, "listNewTokens", FALSE)
  /\ stepResult[StepExec].status = "threw"

\* ------------------------------------------------------------- termination
\* every prompt and every collaborator call eventually returns or fails:
\* an awaited call that is pending is eventually settled
FairSpec == Init /\ [][Next]_vars /\ WF_vars(Next)

\* the terminal states of loginAndCreateEnv
LastCreated == createArgs[Len(createArgs)]

Committed ==
  /\ OAuthOk \/ ProbeOk
  /\ Called(StepExec, "createEnvironment", TRUE)
  /\ HasEnv(store, envName)
  /\ EnvOf(store, envName).token = LastCreated.token
  /\ EnvOf(store, envName).url = LastCreated.url

RolledBack ==
  /\ \E i \in DOMAIN calls : \E j \in DOMAIN calls :
       /\ i < j
       /\ calls[i] = L(StepExec, "createEnvironment", TRUE)
       /\ calls[j].op = "deleteEnvironment"
  /\ ~HasEnv(store, envName)

Failed == ~Called(StepExec, "createEnvironment", TRUE)

ExactlyOneTerminal ==
  \/ Committed /\ ~RolledBack /\ ~Failed
  \/ ~Committed /\ RolledBack /\ ~Failed
  \/ ~Committed /\ ~RolledBack /\ Failed

\* C20: when every pending call settles, login terminates, and
\* loginAndCreateEnv, once started, ends in exactly one of Committed,
\* RolledBack and Failed; it does not stay in a state before them.
C20_TerminatesInTerminalState ==
  /\ <>(pc = "done")
  /\ [](ExecEnded => ExactlyOneTerminal)

\* the termination part alone
Terminates == <>(pc = "done")

\* without a failure value that is not an Error, the end state is one of
\* the three
TerminalWhenErrorsAreErrors ==
  (/\ ExecEnded
   /\ \A i \in DOMAIN calls :
        (calls[i].step = StepExec /\ ~calls[i].ok) => calls[i].err.isError)
    => ExactlyOneTerminal

====
